---- MODULE Spec2Model ----
(***************************************************************************)
(* Model of src/server.js: the structured-content extraction               *)
(* (flattenPolygon, extractStructuredContent and its line polygon map),    *)
(* and the /api/analyze and /api/query handlers around the process-wide    *)
(* currentDocumentContext.                                                 *)
(*                                                                         *)
(* JavaScript values are represented as follows.                           *)
(*   string            a sequence of characters, each a one-character      *)
(*                     string; a white-space character that a string       *)
(*                     literal cannot hold is written as its code point    *)
(*                     name, "U+2028"                                      *)
(*   optional value    <<>> when undefined, <<v>> when present; null is    *)
(*                     Null in a content field, where the code tells it    *)
(*                     from undefined, and <<>> elsewhere                  *)
(*   polygon           [kind, elems]: kind "absent" (undefined), "nonarray"*)
(*                     (any non-array value) or "array"; elems are the     *)
(*                     array's elements [t, x, y]: t "num" (the number x), *)
(*                     "pt" (an object with numeric x and y), "other"      *)
(*   role              a TLA+ string, "" when the field is missing         *)
(***************************************************************************)
EXTENDS Integers, Sequences, FiniteSets, TLC

VARIABLES
  result,                  \* the raw analysis result handed to extractStructuredContent
  pc,                      \* position inside extractStructuredContent
  k,                       \* index of the next element of the running forEach
  linePolygonMap,          \* the Map, as its entries in insertion order
  items,                   \* const items = []
  fullText,                \* let fullText = ''
  ret,                     \* the returned object, <<>> before the return
  currentDocumentContext,  \* let currentDocumentContext = ''
  reqs,                    \* the requests in flight and finished, by request id
  responses                \* the responses sent so far, in order

vars == <<result, pc, k, linePolygonMap, items, fullText, ret,
          currentDocumentContext, reqs, responses>>

extractVars == <<result, pc, k, linePolygonMap, items, fullText, ret>>
serverVars == <<currentDocumentContext, reqs, responses>>

-----------------------------------------------------------------------------
(* Optional values *)

Absent == <<>>
Null == <<<<>>, <<>>>>
Some(v) == <<v>>
IsPresent(o) == Len(o) = 1
Val(o) == o[1]

-----------------------------------------------------------------------------
(* Characters and strings *)

UpperChars == {"A","B","C","D","E","F","G","H","I","J","K","L","M",
               "N","O","P","Q","R","S","T","U","V","W","X","Y","Z"}
DigitChars == {"0","1","2","3","4","5","6","7","8","9"}

\* the line tabulation U+000B, the no-break space U+00A0, the ogham space mark
\* U+1680 and the byte order mark U+FEFF, each as the character itself
VT == ""
NBSP == " "
OghamSpace == " "
BOM == "﻿"

\* U+2000..U+200A, the line and paragraph separators, and the other space separators
NamedSpaceChars ==
  {"U+2000", "U+2001", "U+2002", "U+2003", "U+2004", "U+2005", "U+2006", "U+2007",
   "U+2008", "U+2009", "U+200A", "U+2028", "U+2029", "U+202F", "U+205F", "U+3000"}

\* the characters \s matches and String.prototype.trim strips: WhiteSpace and
\* LineTerminator of ECMAScript
SpaceChars ==
  {" ", "\t", "\n", VT, "\f", "\r", NBSP, OghamSpace, BOM} \cup NamedSpaceChars

UpperSeq == <<"A","B","C","D","E","F","G","H","I","J","K","L","M",
              "N","O","P","Q","R","S","T","U","V","W","X","Y","Z">>
LowerSeq == <<"a","b","c","d","e","f","g","h","i","j","k","l","m",
              "n","o","p","q","r","s","t","u","v","w","x","y","z">>

\* the lower-case form of a character, as the i flag of a regular expression compares
ToLowerChar(c) ==
  IF c \in UpperChars
    THEN LowerSeq[CHOOSE i \in 1..26 : UpperSeq[i] = c]
    ELSE c

NL == "\n"

\* String.prototype.startsWith
StartsWith(s, p) ==
  /\ Len(p) <= Len(s)
  /\ \A i \in 1..Len(p) : s[i] = p[i]

\* startsWith under the i flag; word is given in lower case
StartsWithNoCase(s, word) ==
  /\ Len(word) <= Len(s)
  /\ \A i \in 1..Len(word) : ToLowerChar(s[i]) = word[i]

\* the number of characters of s from position from on that lie in set (a greedy X*)
RECURSIVE RunLength(_, _, _)
RunLength(s, from, set) ==
  IF from > Len(s) \/ s[from] \notin set
    THEN 0
    ELSE 1 + RunLength(s, from + 1, set)

\* String.prototype.trim
Trim(s) ==
  LET lead == RunLength(s, 1, SpaceChars)
      RECURSIVE LastKept(_)
      LastKept(j) == IF j > lead /\ s[j] \in SpaceChars THEN LastKept(j - 1) ELSE j
      last == LastKept(Len(s))
  IN  IF lead >= Len(s) THEN <<>> ELSE SubSeq(s, lead + 1, last)

\* content.split('\n')[0]
FirstLine(s) ==
  LET RECURSIVE Upto(_)
      Upto(i) == IF i > Len(s) \/ s[i] = NL THEN i - 1 ELSE Upto(i + 1)
  IN  SubSeq(s, 1, Upto(1))

\* the decimal digits of a natural number, as template literals print it
RECURSIVE NumToStr(_)
NumToStr(n) ==
  LET d == <<"0","1","2","3","4","5","6","7","8","9">>[(n % 10) + 1]
  IN  IF n < 10 THEN <<d>> ELSE Append(NumToStr(n \div 10), d)

-----------------------------------------------------------------------------
(* The heading shape patterns of extractStructuredContent *)

HeadingMaxLen == 150

\* /^[A-Z][A-Z\s]+$/
MatchAllCaps(s) ==
  /\ Len(s) >= 2
  /\ s[1] \in UpperChars
  /\ \A i \in 2..Len(s) : s[i] \in UpperChars \cup SpaceChars

\* /^\d+\.\s/: the period must be followed by white space
MatchNumberedThenSpace(s) ==
  LET n == RunLength(s, 1, DigitChars)
  IN  n >= 1 /\ n + 2 <= Len(s) /\ s[n + 1] = "." /\ s[n + 2] \in SpaceChars

\* /^\d+\./
MatchNumbered(s) ==
  LET n == RunLength(s, 1, DigitChars)
  IN  n >= 1 /\ n + 1 <= Len(s) /\ s[n + 1] = "."

\* /^word\s+[set]+/i, word in lower case, set closed under the i flag
MatchWordThen(s, word, set) ==
  /\ StartsWithNoCase(s, word)
  /\ LET sp == RunLength(s, Len(word) + 1, SpaceChars)
     IN  sp >= 1 /\ RunLength(s, Len(word) + 1 + sp, set) >= 1

RomanOrDigit == {"I", "V", "X", "i", "v", "x"} \cup DigitChars
DigitOrDot == DigitChars \cup {"."}

ArticleWord == <<"a","r","t","i","c","l","e">>
SectionWord == <<"s","e","c","t","i","o","n">>
ClauseWord == <<"c","l","a","u","s","e">>

\* /^[A-Z][^.!?]*:$/
MatchColonTitle(s) ==
  /\ Len(s) >= 2
  /\ s[1] \in UpperChars
  /\ s[Len(s)] = ":"
  /\ \A i \in 2..(Len(s) - 1) : s[i] \notin {".", "!", "?"}

\* the parenthesised disjunction of content.match(...) calls, lines 225-232 / 274-281
MatchesShape(s) ==
  \/ MatchAllCaps(s)
  \/ MatchNumbered(s)
  \/ MatchWordThen(s, ArticleWord, RomanOrDigit)
  \/ MatchWordThen(s, SectionWord, DigitOrDot)
  \/ MatchWordThen(s, ArticleWord, RomanOrDigit)
  \/ MatchWordThen(s, SectionWord, DigitOrDot)
  \/ MatchColonTitle(s)
  \/ MatchWordThen(s, ClauseWord, DigitOrDot)

\* content.length < 150 && (...)
ShapeIsHeading(s) == Len(s) < HeadingMaxLen /\ MatchesShape(s)

HeadingRoles == {"title", "sectionHeading", "pageHeader"}

\* const role = paragraph.role || 'paragraph'
RoleOf(paragraph) == IF paragraph.role = "" THEN "paragraph" ELSE paragraph.role

\* the role test without pageHeader
RoleIsHeadingNoPageHeader(role) == role \in {"title", "sectionHeading"}

\* role === 'title' || role === 'sectionHeading' || role === 'pageHeader'
RoleIsHeading(role) == role \in HeadingRoles

\* isHeading of the paragraph path; content is a present string
ParagraphIsHeading(content, role) == RoleIsHeading(role) \/ ShapeIsHeading(content)

\* isHeading ? 'heading' : 'paragraph'
TypeOf(isHeading) == IF isHeading THEN "heading" ELSE "paragraph"

-----------------------------------------------------------------------------
(* flattenPolygon *)

NoPolygon == [kind |-> "absent", elems |-> <<>>]

\* polygon.flatMap(pt => [pt.x, pt.y])
RECURSIVE FlatMapXY(_)
FlatMapXY(elems) ==
  IF elems = <<>> THEN <<>>
  ELSE <<elems[1].x, elems[1].y>> \o FlatMapXY(Tail(elems))

\* the array itself, read as numbers (the arrays modelled hold elements of one kind)
AsIs(elems) == [i \in 1..Len(elems) |-> elems[i].x]

\* null is Absent, an array is Some(its numbers)
flattenPolygon(polygon) ==
  IF polygon.kind # "array" THEN Absent
  ELSE IF polygon.elems # <<>> /\ polygon.elems[1].t = "num" THEN Some(AsIs(polygon.elems))
  ELSE IF polygon.elems # <<>> /\ polygon.elems[1].t = "pt" THEN Some(FlatMapXY(polygon.elems))
  ELSE Absent

MinCoords == 8

\* flatPoly && flatPoly.length >= 8
Usable(flat) == IsPresent(flat) /\ Len(Val(flat)) >= MinCoords

\* x || []
OrEmpty(flat) == IF IsPresent(flat) THEN Val(flat) ELSE <<>>

\* `D(${page},${p[0]},...,${p[7]})`
SourceTerm(pageNumber, p) ==
  LET RECURSIVE Coords(_)
      Coords(i) == IF i > MinCoords THEN <<>>
                   ELSE <<",">> \o NumToStr(p[i]) \o Coords(i + 1)
  IN  <<"D", "(">> \o NumToStr(pageNumber) \o Coords(1) \o <<")">>

\* Array.prototype.join(';')
RECURSIVE JoinSemi(_)
JoinSemi(strs) ==
  IF strs = <<>> THEN <<>>
  ELSE IF Len(strs) = 1 THEN strs[1]
  ELSE strs[1] \o <<";">> \o JoinSemi(Tail(strs))

-----------------------------------------------------------------------------
(* The line polygon map and findLinePolygon *)

\* `${pageNumber}:${text}`
KeyOf(pageNumber, text) == NumToStr(pageNumber) \o <<":">> \o text

\* linePolygonMap.has(key)
MapHas(map, key) == \E i \in 1..Len(map) : map[i].key = key

\* linePolygonMap.get(key), for a key the map has
MapGet(map, key) == map[CHOOSE i \in 1..Len(map) : map[i].key = key]

\* the map build without the has(key) test: a later line replaces the stored entry
IndexLineLastWins(map, page, line) ==
  LET key == KeyOf(page.pageNumber, Trim(Val(line.content)))
      flatPoly == flattenPolygon(line.polygon)
      entry == [key |-> key, page |-> page.pageNumber, polygon |-> Val(flatPoly)]
  IN  IF ~Usable(flatPoly) THEN map
      ELSE IF MapHas(map, key)
        THEN [i \in 1..Len(map) |-> IF map[i].key = key THEN entry ELSE map[i]]
        ELSE Append(map, entry)

\* the body of page.lines.forEach(line => ...) at lines 174-181; line.content is present
IndexLine(map, page, line) ==
  LET key == KeyOf(page.pageNumber, Trim(Val(line.content)))
      flatPoly == flattenPolygon(line.polygon)
  IN  IF ~MapHas(map, key) /\ Usable(flatPoly)
        THEN Append(map, [key |-> key, page |-> page.pageNumber, polygon |-> Val(flatPoly)])
        ELSE map

\* key.split(':')[1]
SplitColonSecond(key) ==
  LET RECURSIVE Upto(_)
      Upto(i) == IF i > Len(key) \/ key[i] = ":" THEN i ELSE Upto(i + 1)
      c1 == Upto(1)
  IN  SubSeq(key, c1 + 1, Upto(c1 + 1) - 1)

\* findLinePolygon(content, pageNumber): the entry found, or Absent for null
findLinePolygon(map, content, pageNumber) ==
  LET exactKey == KeyOf(pageNumber, Trim(content))
      firstLineKey == KeyOf(pageNumber, Trim(FirstLine(content)))
      prefix == NumToStr(pageNumber) \o <<":">>
      hits == {i \in 1..Len(map) :
                 /\ StartsWith(map[i].key, prefix)
                 /\ StartsWith(Trim(content), SplitColonSecond(map[i].key))}
  IN  IF MapHas(map, exactKey) THEN Some(MapGet(map, exactKey))
      ELSE IF MapHas(map, firstLineKey) THEN Some(MapGet(map, firstLineKey))
      ELSE IF hits # {} THEN Some(map[CHOOSE i \in hits : \A j \in hits : i <= j])
      ELSE Absent

-----------------------------------------------------------------------------
(* extractStructuredContent, one forEach iteration at a time.  The locals  *)
(* of a call are a record [pc, k, linePolygonMap, items, fullText, ret].    *)

\* the (page index, line index) pairs the nested forEach over result.pages visits
LinePositions(r) ==
  IF ~IsPresent(r.pages) THEN <<>>
  ELSE LET ps == Val(r.pages)
           RECURSIVE From(_)
           From(i) ==
             IF i > Len(ps) THEN <<>>
             ELSE (IF IsPresent(ps[i].lines)
                     THEN [j \in 1..Len(Val(ps[i].lines)) |-> <<i, j>>]
                     ELSE <<>>) \o From(i + 1)
       IN  From(1)

PageAt(r, pos) == Val(r.pages)[pos[1]]
LineAt(r, pos) == Val(PageAt(r, pos).lines)[pos[2]]

\* the number of paragraphs result.paragraphs.forEach visits
ParagraphCount(r) == IF IsPresent(r.paragraphs) THEN Len(Val(r.paragraphs)) ELSE 0

\* the locals at lines 165-169
InitialLocals ==
  [pc |-> "build", k |-> 1, linePolygonMap |-> <<>>, items |-> <<>>,
   fullText |-> <<>>, ret |-> Absent]

Undefined == <<"u","n","d","e","f","i","n","e","d">>
NullText == <<"n","u","l","l">>

\* separators swapped between the two paths
SingleNewline == <<NL>>
BlankLine == <<NL, NL>>

\* the '\n\n' of line 217 and the '\n' of line 270
ParagraphSeparator == <<NL, NL>>
LineSeparator == <<NL>>

\* string concatenation with an operand that may be undefined or null
ToText(content) ==
  IF IsPresent(content) THEN Val(content)
  ELSE IF content = Null THEN NullText
  ELSE Undefined

\* lines 173-182: one line of the map build; line.content.trim() throws on undefined
\* and on null
BuildLineStep(r, st) ==
  LET pos == LinePositions(r)[st.k]
      line == LineAt(r, pos)
  IN  IF ~IsPresent(line.content)
        THEN [st EXCEPT !.pc = "threw"]
        ELSE [st EXCEPT !.linePolygonMap = IndexLine(st.linePolygonMap, PageAt(r, pos), line),
                        !.k = st.k + 1]

\* the map is built (lines 170-185): go on to `if (result.paragraphs)`
BuildDoneStep(r, st) == [st EXCEPT !.pc = "paragraphs", !.k = 1]

\* paragraph.boundingRegions?.[0]
FirstRegion(paragraph) ==
  IF IsPresent(paragraph.boundingRegions) /\ Val(paragraph.boundingRegions) # <<>>
    THEN Some(Val(paragraph.boundingRegions)[1])
    ELSE Absent

\* paragraph.boundingRegions?.[0]?.pageNumber || 1
ParagraphPage(paragraph) ==
  LET r0 == FirstRegion(paragraph)
  IN  IF IsPresent(r0) /\ Val(r0).pageNumber # 0 THEN Val(r0).pageNumber ELSE 1

\* flattenPolygon(paragraph.boundingRegions?.[0]?.polygon) || []
ParagraphBoundingPolygon(paragraph) ==
  LET r0 == FirstRegion(paragraph)
  IN  OrEmpty(flattenPolygon(IF IsPresent(r0) THEN Val(r0).polygon ELSE NoPolygon))

\* regions.map(...).filter(s => s), lines 243-250
RECURSIVE RegionSources(_)
RegionSources(regions) ==
  IF regions = <<>> THEN <<>>
  ELSE LET flatPoly == flattenPolygon(regions[1].polygon)
       IN  (IF Usable(flatPoly)
              THEN <<SourceTerm(regions[1].pageNumber, Val(flatPoly))>>
              ELSE <<>>) \o RegionSources(Tail(regions))

\* lines 241-252
ParagraphSource(paragraph) ==
  IF IsPresent(paragraph.boundingRegions) /\ Len(Val(paragraph.boundingRegions)) > 0
    THEN Some(JoinSemi(RegionSources(Val(paragraph.boundingRegions))))
    ELSE Absent

\* the object pushed at lines 254-261, index counted from 0
ParagraphItem(paragraph, index) ==
  [id |-> <<"i","t","e","m","-">> \o NumToStr(index),
   type |-> TypeOf(IF IsPresent(paragraph.content)
                     THEN ParagraphIsHeading(Val(paragraph.content), RoleOf(paragraph))
                     ELSE RoleIsHeading(RoleOf(paragraph))),
   content |-> paragraph.content,
   page |-> ParagraphPage(paragraph),
   boundingBox |-> ParagraphBoundingPolygon(paragraph),
   source |-> ParagraphSource(paragraph)]

\* boundingRegions[0].pageNumber read without optional chaining
ParagraphThrowsUnchained(paragraph) ==
  \/ ~IsPresent(paragraph.content) /\ paragraph.role \notin {"title", "sectionHeading", "pageHeader"}
  \/ ~IsPresent(paragraph.boundingRegions)
  \/ Val(paragraph.boundingRegions) = <<>>

\* content.length throws on undefined and on null unless a role test short-circuits
\* first
ParagraphThrows(paragraph) ==
  ~IsPresent(paragraph.content) /\ ~RoleIsHeading(RoleOf(paragraph))

\* lines 213-262: one paragraph
ParagraphStep(r, st) ==
  LET paragraph == Val(r.paragraphs)[st.k]
      text == st.fullText \o ToText(paragraph.content) \o ParagraphSeparator
  IN  IF ParagraphThrows(paragraph)
        THEN [st EXCEPT !.fullText = text, !.pc = "threw"]
        ELSE [st EXCEPT !.fullText = text,
                        !.items = Append(st.items, ParagraphItem(paragraph, st.k - 1)),
                        !.k = st.k + 1]

\* the fallback test without items.length === 0
TakesFallbackIgnoringItems(r, st) == IsPresent(r.pages)

\* items.length === 0 && result.pages, line 266
TakesFallback(r, st) == Len(st.items) = 0 /\ IsPresent(r.pages)

\* entering the fallback forEach
FallbackStep(r, st) == [st EXCEPT !.pc = "lines", !.k = 1]

\* the object pushed at lines 291-298, indexes counted from 0
LineItem(page, line, pageIndex, lineIndex) ==
  LET flatPoly == flattenPolygon(line.polygon)
  IN  [id |-> <<"p","a","g","e","-">> \o NumToStr(pageIndex)
                \o <<"-","l","i","n","e","-">> \o NumToStr(lineIndex),
       type |-> TypeOf(ShapeIsHeading(Val(line.content))),
       content |-> line.content,
       page |-> page.pageNumber,
       boundingBox |-> OrEmpty(flatPoly),
       source |-> IF Usable(flatPoly)
                    THEN Some(SourceTerm(page.pageNumber, Val(flatPoly)))
                    ELSE Absent]

\* lines 269-299: one line of the fallback; content.length throws on undefined and
\* on null
LineStep(r, st) ==
  LET pos == LinePositions(r)[st.k]
      line == LineAt(r, pos)
      text == st.fullText \o ToText(line.content) \o LineSeparator
  IN  IF ~IsPresent(line.content)
        THEN [st EXCEPT !.fullText = text, !.pc = "threw"]
        ELSE [st EXCEPT !.fullText = text,
                        !.items = Append(st.items,
                                         LineItem(PageAt(r, pos), line, pos[1] - 1, pos[2] - 1)),
                        !.k = st.k + 1]

\* result.pages?.length || 0
PageCount(r) == IF IsPresent(r.pages) THEN Len(Val(r.pages)) ELSE 0

\* lines 304-308
ReturnStep(r, st) ==
  [st EXCEPT !.pc = "done",
             !.ret = Some([items |-> st.items, fullText |-> st.fullText,
                           pageCount |-> PageCount(r)])]

\* which step the call takes next
AtBuildLine(r, st) == st.pc = "build" /\ st.k <= Len(LinePositions(r))
AtBuildDone(r, st) == st.pc = "build" /\ st.k > Len(LinePositions(r))
AtParagraph(r, st) == st.pc = "paragraphs" /\ st.k <= ParagraphCount(r)
AtFallback(r, st) ==
  st.pc = "paragraphs" /\ st.k > ParagraphCount(r) /\ TakesFallback(r, st)
AtLine(r, st) == st.pc = "lines" /\ st.k <= Len(LinePositions(r))
AtReturn(r, st) ==
  \/ st.pc = "paragraphs" /\ st.k > ParagraphCount(r) /\ ~TakesFallback(r, st)
  \/ st.pc = "lines" /\ st.k > Len(LinePositions(r))

Step(r, st) ==
  IF AtBuildLine(r, st) THEN BuildLineStep(r, st)
  ELSE IF AtBuildDone(r, st) THEN BuildDoneStep(r, st)
  ELSE IF AtParagraph(r, st) THEN ParagraphStep(r, st)
  ELSE IF AtFallback(r, st) THEN FallbackStep(r, st)
  ELSE IF AtLine(r, st) THEN LineStep(r, st)
  ELSE ReturnStep(r, st)

\* the whole call: the locals when it returns (pc "done") or throws (pc "threw")
RECURSIVE RunFrom(_, _)
RunFrom(r, st) ==
  IF st.pc \in {"done", "threw"} THEN st ELSE RunFrom(r, Step(r, st))

extractStructuredContent(r) == RunFrom(r, InitialLocals)

-----------------------------------------------------------------------------
(* Raw analysis results *)

MaxPages == 2      \* pages of a raw result
MaxLines == 2      \* lines of a raw result, over all its pages
MaxParas == 2      \* paragraphs of a raw result
MaxRegions == 1    \* bounding regions of a raw result, over all its paragraphs

Num(n) == [t |-> "num", x |-> n, y |-> 0]
Pt(a, b) == [t |-> "pt", x |-> a, y |-> b]
Other == [t |-> "other", x |-> 0, y |-> 0]
Arr(elems) == [kind |-> "array", elems |-> elems]

\* a flat array of 8 numbers, another one, a flat array of 4 numbers, four {x, y}
\* points, an array of strings, and a value that is no array
FlatA == Arr(<<Num(1), Num(1), Num(5), Num(1), Num(5), Num(2), Num(1), Num(2)>>)
FlatB == Arr(<<Num(1), Num(3), Num(5), Num(3), Num(5), Num(4), Num(1), Num(4)>>)
FlatShort == Arr(<<Num(1), Num(1), Num(5), Num(2)>>)
PointsC == Arr(<<Pt(2, 6), Pt(7, 6), Pt(7, 8), Pt(2, 8)>>)
Strings == Arr(<<Other, Other, Other, Other, Other, Other, Other, Other>>)
NonArray == [kind |-> "nonarray", elems |-> <<>>]

Section1 == <<"S","E","C","T","I","O","N"," ","1">>
Section1Padded == <<" ">> \o Section1 \o <<" ">>
TextBody == <<"T","e","x","t"," ","b","o","d","y"," ","h","e","r","e",".">>

LineSet ==
  {[content |-> Some(Section1), polygon |-> FlatA],
   [content |-> Some(Section1Padded), polygon |-> FlatB],
   [content |-> Some(Section1), polygon |-> FlatShort],
   [content |-> Some(TextBody), polygon |-> PointsC],
   [content |-> Some(TextBody), polygon |-> NoPolygon]}

RegionSet ==
  {[pageNumber |-> 2, polygon |-> FlatA], [pageNumber |-> 1, polygon |-> PointsC],
   [pageNumber |-> 1, polygon |-> FlatShort], [pageNumber |-> 1, polygon |-> NoPolygon]}

\* (content, role) of the paragraphs
ParagraphTexts == {<<Some(Section1), "">>, <<Some(TextBody), "paragraph">>}

RECURSIVE SeqsOfLen(_, _)
SeqsOfLen(S, n) ==
  IF n = 0 THEN {<<>>}
  ELSE {Append(s, x) : s \in SeqsOfLen(S, n - 1), x \in S}

\* an optional sequence of exactly n elements of S (undefined or [] when n = 0)
OptSeqs(S, n) ==
  {Some(s) : s \in SeqsOfLen(S, n)} \cup (IF n = 0 THEN {Absent} ELSE {})

\* the sequences of exactly n pages holding at most budget lines altogether
RECURSIVE PageSeqs(_, _)
PageSeqs(n, budget) ==
  IF n = 0 THEN {<<>>}
  ELSE UNION {{Append(ps, [pageNumber |-> n, lines |-> ls]) :
                 ps \in PageSeqs(n - 1, budget - c), ls \in OptSeqs(LineSet, c)} :
              c \in 0..budget}

\* the sequences of exactly n paragraphs holding at most budget regions altogether
RECURSIVE ParagraphSeqs(_, _)
ParagraphSeqs(n, budget) ==
  IF n = 0 THEN {<<>>}
  ELSE UNION {{Append(ps, [content |-> t[1], role |-> t[2], boundingRegions |-> rs]) :
                 ps \in ParagraphSeqs(n - 1, budget - c),
                 t \in ParagraphTexts, rs \in OptSeqs(RegionSet, c)} :
              c \in 0..budget}

AllPages == {Absent} \cup UNION {{Some(ps) : ps \in PageSeqs(n, MaxLines)} : n \in 0..MaxPages}
AllParagraphs ==
  {Absent} \cup UNION {{Some(ps) : ps \in ParagraphSeqs(n, MaxRegions)} : n \in 0..MaxParas}

\* a page whose two lines carry the texts of the paragraphs
TwoLinePage ==
  [pageNumber |-> 1,
   lines |-> Some(<<[content |-> Some(Section1), polygon |-> FlatB],
                    [content |-> Some(TextBody), polygon |-> PointsC]>>)]

\* results whose content field is missing or null on a line or on a paragraph
MalformedResults ==
  {[pages |-> Some(<<[pageNumber |-> 1,
                      lines |-> Some(<<[content |-> c, polygon |-> FlatA]>>)]>>),
    paragraphs |-> Absent] : c \in {Absent, Null}}
  \cup {[pages |-> Absent,
         paragraphs |-> Some(<<[content |-> c, role |-> r, boundingRegions |-> Absent]>>)] :
        c \in {Absent, Null}, r \in {"", "title"}}

\* polygons of other shapes: an array of strings, an empty array, a value that is no array
OddPolygons == {Strings, Arr(<<>>), NonArray}

\* results with such a polygon on a line, or on the region of a paragraph
OddGeometryResults ==
  {[pages |-> Some(<<[pageNumber |-> 1,
                      lines |-> Some(<<[content |-> Some(TextBody), polygon |-> g]>>)]>>),
    paragraphs |-> Absent] : g \in OddPolygons}
  \cup {[pages |-> Some(<<TwoLinePage>>),
         paragraphs |-> Some(<<[content |-> Some(TextBody), role |-> r,
                                boundingRegions |->
                                  Some(<<[pageNumber |-> n, polygon |-> g]>>)]>>)] :
        r \in {"", "pageHeader"}, n \in {0, 1}, g \in OddPolygons}

Confidential == <<"C","o","n","f","i","d","e","n","t","i","a","l">>

\* two lines of page 1 with the same text at different coordinates
DuplicateLineResult ==
  [pages |-> Some(<<[pageNumber |-> 1,
                     lines |-> Some(<<[content |-> Some(Confidential), polygon |-> FlatA],
                                      [content |-> Some(Confidential), polygon |-> FlatB]>>)]>>),
   paragraphs |-> Absent]

\* two lines of page 1 whose texts differ in the white space around them only
PaddedDuplicateResults ==
  {[pages |-> Some(<<[pageNumber |-> 1,
                      lines |-> Some(<<[content |-> Some(Confidential \o <<c>>),
                                        polygon |-> FlatA],
                                       [content |-> Some(<<c>> \o Confidential),
                                        polygon |-> FlatB]>>)]>>),
    paragraphs |-> Absent] : c \in SpaceChars}

RawResults ==
  {[pages |-> ps, paragraphs |-> pars] :
     ps \in {Absent, Some(<<TwoLinePage>>)}, pars \in AllParagraphs}
  \cup {[pages |-> ps, paragraphs |-> pars] : ps \in AllPages, pars \in {Absent, Some(<<>>)}}
  \cup MalformedResults \cup OddGeometryResults \cup {DuplicateLineResult}
  \cup PaddedDuplicateResults

-----------------------------------------------------------------------------
(* One call of extractStructuredContent on a raw result *)

Locals ==
  [pc |-> pc, k |-> k, linePolygonMap |-> linePolygonMap, items |-> items,
   fullText |-> fullText, ret |-> ret]

Install(st) ==
  /\ pc' = st.pc
  /\ k' = st.k
  /\ linePolygonMap' = st.linePolygonMap
  /\ items' = st.items
  /\ fullText' = st.fullText
  /\ ret' = st.ret
  /\ UNCHANGED <<result, serverVars>>

IdleServer ==
  /\ currentDocumentContext = <<>>
  /\ reqs = <<>>
  /\ responses = <<>>

Init ==
  /\ result \in RawResults
  /\ pc = InitialLocals.pc
  /\ k = InitialLocals.k
  /\ linePolygonMap = InitialLocals.linePolygonMap
  /\ items = InitialLocals.items
  /\ fullText = InitialLocals.fullText
  /\ ret = InitialLocals.ret
  /\ IdleServer

BuildLine == AtBuildLine(result, Locals) /\ Install(BuildLineStep(result, Locals))
BuildDone == AtBuildDone(result, Locals) /\ Install(BuildDoneStep(result, Locals))
Paragraph == AtParagraph(result, Locals) /\ Install(ParagraphStep(result, Locals))
Fallback == AtFallback(result, Locals) /\ Install(FallbackStep(result, Locals))
Line == AtLine(result, Locals) /\ Install(LineStep(result, Locals))
Return == AtReturn(result, Locals) /\ Install(ReturnStep(result, Locals))

Next == BuildLine \/ BuildDone \/ Paragraph \/ Fallback \/ Line \/ Return

Spec == Init /\ [][Next]_vars

-----------------------------------------------------------------------------
(* Properties of extractStructuredContent *)

Paragraphs == Val(result.paragraphs)

\* the content of each item followed by sep, in item order
RECURSIVE ConcatContents(_, _)
ConcatContents(its, sep) ==
  IF its = <<>> THEN <<>>
  ELSE ToText(its[1].content) \o sep \o ConcatContents(Tail(its), sep)

ItemPrefix == <<"i","t","e","m","-">>

\* C1: with at least one paragraph, the items pushed so far are the paragraphs
\* processed so far, in order, each with the id and the content of its paragraph,
\* and the returned items are exactly one per paragraph.
C1_OneItemPerParagraph ==
  ParagraphCount(result) >= 1 =>
    /\ Len(items) <= ParagraphCount(result)
    /\ \A i \in 1..Len(items) :
         /\ items[i].content = Paragraphs[i].content
         /\ items[i].id = ItemPrefix \o NumToStr(i - 1)
    /\ pc = "done" =>
         /\ Val(ret).items = items
         /\ Len(Val(ret).items) = ParagraphCount(result)

\* two paragraphs were returned from a result that also has lines
C1_Witness ==
  /\ pc = "done"
  /\ ParagraphCount(result) = 2
  /\ Len(LinePositions(result)) = 2
  /\ Len(Val(ret).items) = 2

\* C2: in the paragraph path, after every paragraph processed and in the value
\* returned, fullText is the concatenation, in item order, of each item's content
\* followed by two newlines (a call that has thrown returns neither).
C2_FullTextMatchesItems ==
  (ParagraphCount(result) >= 1 /\ pc # "threw") =>
    /\ fullText = ConcatContents(items, <<"\n", "\n">>)
    /\ pc = "done" =>
         Val(ret).fullText = ConcatContents(Val(ret).items, <<"\n", "\n">>)

\* the first of two paragraphs has been processed
C2_Witness ==
  /\ pc = "paragraphs"
  /\ ParagraphCount(result) = 2
  /\ Len(items) = 1
  /\ fullText = Val(Paragraphs[1].content) \o <<"\n", "\n">>

\* no paragraphs, one page with the lines "SECTION 1" and "Text body here."
FallbackScenario ==
  [pages |-> Some(<<[pageNumber |-> 1,
                     lines |-> Some(<<[content |-> Some(Section1), polygon |-> FlatA],
                                      [content |-> Some(TextBody), polygon |-> PointsC]>>)]>>),
   paragraphs |-> Absent]

\* C5: the fallback runs only when there is no paragraph; it then returns one item
\* per line, pages in order and lines in order within a page, typed by the shape of
\* the content alone, and fullText is each line's content followed by one newline;
\* the scenario yields heading, paragraph and "SECTION 1\nText body here.\n"; with
\* a paragraph no line contributes.
C5_FallbackPath ==
  LET pos == LinePositions(result)
  IN  /\ pc = "lines" => ParagraphCount(result) = 0
      /\ (pc = "done" /\ ParagraphCount(result) = 0) =>
           /\ Len(Val(ret).items) = Len(pos)
           /\ \A i \in 1..Len(pos) :
                /\ Val(ret).items[i].content = LineAt(result, pos[i]).content
                /\ Val(ret).items[i].page = pos[i][1]
                /\ Val(ret).items[i].type =
                     (IF Len(Val(Val(ret).items[i].content)) < 150
                         /\ MatchesShape(Val(Val(ret).items[i].content))
                        THEN "heading" ELSE "paragraph")
           /\ \A i, j \in 1..Len(pos) :
                i < j => \/ pos[i][1] < pos[j][1]
                         \/ pos[i][1] = pos[j][1] /\ pos[i][2] < pos[j][2]
           /\ Val(ret).fullText = ConcatContents(Val(ret).items, <<"\n">>)
      /\ (pc = "done" /\ result = FallbackScenario) =>
           /\ [i \in 1..2 |-> Val(ret).items[i].type] = <<"heading", "paragraph">>
           /\ Val(ret).fullText = Section1 \o <<"\n">> \o TextBody \o <<"\n">>
      /\ (pc = "done" /\ ParagraphCount(result) >= 1) =>
           /\ \A i \in 1..Len(Val(ret).items) : StartsWith(Val(ret).items[i].id, ItemPrefix)
           /\ Val(ret).fullText = ConcatContents(Val(ret).items, <<"\n", "\n">>)

\* the fallback returned the lines of two pages
C5_Witness ==
  /\ pc = "done"
  /\ ParagraphCount(result) = 0
  /\ Len(LinePositions(result)) = 2
  /\ LinePositions(result)[2][1] = 2
  /\ Len(Val(ret).items) = 2

\* C6: every item's boundingBox is empty or has at least 8 numbers.
C6_BoundingBoxUsable ==
  \A i \in 1..Len(items) :
    items[i].boundingBox = <<>> \/ Len(items[i].boundingBox) >= 8

\* the line the build is about to process
BuildLineKey ==
  LET pos == LinePositions(result)[k]
  IN  KeyOf(PageAt(result, pos).pageNumber, Trim(Val(LineAt(result, pos).content)))

\* C8: every stored entry has at least 8 coordinates; no step overwrites or removes
\* a stored entry; processing a line whose key is already stored leaves the map
\* unchanged; two "Confidential" lines on page 1 leave the first one's coordinates.
C8_FirstSeenWins ==
  /\ [](\A i \in 1..Len(linePolygonMap) : Len(linePolygonMap[i].polygon) >= 8)
  /\ [][\A i \in 1..Len(linePolygonMap) :
          i <= Len(linePolygonMap') /\ linePolygonMap'[i] = linePolygonMap[i]]_vars
  /\ [][(/\ AtBuildLine(result, Locals)
         /\ IsPresent(LineAt(result, LinePositions(result)[k]).content)
         /\ MapHas(linePolygonMap, BuildLineKey))
        => linePolygonMap' = linePolygonMap]_vars
  /\ []((result = DuplicateLineResult /\ pc # "build") =>
          linePolygonMap = <<[key |-> <<"1", ":">> \o Confidential, page |-> 1,
                              polygon |-> <<1, 1, 5, 1, 5, 2, 1, 2>>]>>)

\* a second usable line with a stored key and other coordinates has been processed
C8_Witness ==
  /\ pc = "build"
  /\ k = 3
  /\ Len(linePolygonMap) = 1
  /\ LET l1 == LineAt(result, LinePositions(result)[1])
         l2 == LineAt(result, LinePositions(result)[2])
     IN  /\ LinePositions(result)[2][1] = LinePositions(result)[1][1]
         /\ Trim(Val(l1.content)) = Trim(Val(l2.content))
         /\ Usable(flattenPolygon(l1.polygon))
         /\ Usable(flattenPolygon(l2.polygon))
         /\ flattenPolygon(l1.polygon) # flattenPolygon(l2.polygon)
         /\ linePolygonMap[1].polygon = Val(flattenPolygon(l1.polygon))

\* C9: a returned paragraph item whose paragraph has no polygon of its own carries
\* the polygon findLinePolygon finds for its content and page, and its boundingBox
\* is empty only when there is no own polygon and findLinePolygon finds none.
C9_IndexFallback ==
  pc = "done" =>
    \A i \in 1..ParagraphCount(result) :
      LET r0 == FirstRegion(Paragraphs[i])
          own == flattenPolygon(IF IsPresent(r0) THEN Val(r0).polygon ELSE NoPolygon)
          found == findLinePolygon(linePolygonMap, ToText(Paragraphs[i].content),
                                   Val(ret).items[i].page)
      IN  /\ (~IsPresent(own) /\ IsPresent(found)) =>
               Val(ret).items[i].boundingBox = Val(found).polygon
          /\ Val(ret).items[i].boundingBox = <<>> =>
               ~IsPresent(own) /\ ~IsPresent(found)

\* every line and every paragraph of the result has its content
ContentsPresent(r) ==
  /\ \A i \in 1..Len(LinePositions(r)) : IsPresent(LineAt(r, LinePositions(r)[i]).content)
  /\ \A i \in 1..ParagraphCount(r) : IsPresent(Val(r.paragraphs)[i].content)

\* C10: whatever of pages, paragraphs, lines, polygons, bounding regions and region
\* polygons is absent or empty, the call does not throw and can go on until it
\* returns; it returns no items and an empty fullText when there is no content,
\* pageCount 0 without pages, and page 1, an empty boundingBox and a null source
\* for a paragraph without regions.
C10_NeverRaises ==
  ContentsPresent(result) =>
    /\ pc # "threw"
    /\ pc # "done" =>
         \/ AtBuildLine(result, Locals) \/ AtBuildDone(result, Locals)
         \/ AtParagraph(result, Locals) \/ AtFallback(result, Locals)
         \/ AtLine(result, Locals) \/ AtReturn(result, Locals)
    /\ pc = "done" =>
         /\ (ParagraphCount(result) = 0 /\ Len(LinePositions(result)) = 0) =>
              Val(ret).items = <<>> /\ Val(ret).fullText = <<>>
         /\ ~IsPresent(result.pages) => Val(ret).pageCount = 0
         /\ IsPresent(result.pages) => Val(ret).pageCount = Len(Val(result.pages))
         /\ \A i \in 1..ParagraphCount(result) :
              (\/ ~IsPresent(Paragraphs[i].boundingRegions)
               \/ Val(Paragraphs[i].boundingRegions) = <<>>) =>
                /\ Val(ret).items[i].page = 1
                /\ Val(ret).items[i].boundingBox = <<>>
                /\ Val(ret).items[i].source = Absent

\* a paragraph with an empty boundingRegions was returned from a result without pages
C10_Witness ==
  /\ pc = "done"
  /\ ~IsPresent(result.pages)
  /\ ParagraphCount(result) = 1
  /\ Paragraphs[1].boundingRegions = Some(<<>>)
  /\ Val(ret).items[1].page = 1

-----------------------------------------------------------------------------
(* Classification: one paragraph, processed twice, or one line, over many  *)
(* contents and roles                                                       *)

MaxShort == 3      \* length of the short contents
PadSlack == 1      \* how far the padded contents go below and above 150 characters

ClassifyAlphabet == {"A", "b", "1", ".", " ", ":", "?"}

ShortContents == UNION {SeqsOfLen(ClassifyAlphabet, n) : n \in 0..MaxShort}

\* a key word, white space or none, and what follows
WordContents ==
  {w \o sp \o t :
     w \in {<<"A","r","t","i","c","l","e">>, <<"A","R","T","I","C","L","E">>,
            <<"S","e","c","t","i","o","n">>, <<"s","e","c","t","i","o","n">>,
            <<"C","l","a","u","s","e">>, <<"C","L","A","U","S","E">>,
            <<"P","a","r","t">>},
     sp \in {<<>>, <<" ">>, <<"\n", "\t">>},
     t \in {<<>>, <<"I">>, <<"i","v">>, <<"1">>, <<".","2">>, <<"A">>, <<"o","n","e">>}}

\* head, then fill repeated, then tail, n characters in all
Padded(head, fill, tail, n) ==
  head \o [i \in 1..(n - Len(head) - Len(tail)) |-> fill] \o tail

PaddedContents ==
  {Padded(b[1], b[2], b[3], n) :
     b \in {<<<<"1", ".">>, "x", <<>>>>, <<<<"A", "B">>, "C", <<>>>>,
            <<<<"T">>, "a", <<":">>>>, <<<<"S","e","c","t","i","o","n"," ","1">>, "x", <<>>>>,
            <<<<"x">>, "x", <<>>>>},
     n \in (HeadingMaxLen - PadSlack)..(HeadingMaxLen + PadSlack)}

\* "1.1 This Agreement shall commence ... as provided herein."
CommenceClause ==
  <<"1",".","1"," ","T","h","i","s"," ","A","g","r","e","e","m","e","n","t"," ","s","h","a",
    "l","l"," ","c","o","m","m","e","n","c","e"," ","o","n"," ","t","h","e"," ","E","f","f",
    "e","c","t","i","v","e"," ","D","a","t","e"," ","a","n","d"," ","c","o","n","t","i","n",
    "u","e"," ","f","o","r"," ","a"," ","p","e","r","i","o","d"," ","o","f"," ","f","i","v",
    "e"," ","y","e","a","r","s"," ","u","n","l","e","s","s"," ","e","a","r","l","i","e","r",
    " ","t","e","r","m","i","n","a","t","e","d"," ","a","s"," ","p","r","o","v","i","d","e",
    "d"," ","h","e","r","e","i","n",".">>

\* "ARTICLE I. DEFINITIONS"
ArticleDefinitions ==
  <<"A","R","T","I","C","L","E"," ","I","."," ","D","E","F","I","N","I","T","I","O","N",
    "S">>

\* each white-space character between capitals, after a key word, after a numbered
\* prefix and around a colon title
WhiteSpaceContents ==
  UNION {{<<"A", c, "B">>,
          <<"A","r","t","i","c","l","e", c, "1">>,
          <<"S","e","c","t","i","o","n", c, "2">>,
          <<"C","l","a","u","s","e", c, "7">>,
          <<"1", ".", c>>,
          <<c, "T", "o", ":", c>>} : c \in SpaceChars}

ClassifyContents ==
  ShortContents \cup WordContents \cup PaddedContents \cup WhiteSpaceContents
  \cup {CommenceClause, ArticleDefinitions}

ClassifyRoles == {"", "paragraph", "title", "sectionHeading", "pageHeader", "footnote"}

ClassifyResults ==
  {[pages |-> Absent,
    paragraphs |-> Some(<<[content |-> Some(c), role |-> r, boundingRegions |-> Absent],
                          [content |-> Some(c), role |-> r, boundingRegions |-> Absent]>>)] :
     c \in ClassifyContents, r \in ClassifyRoles}
  \cup {[pages |-> Some(<<[pageNumber |-> 1,
                           lines |-> Some(<<[content |-> Some(c), polygon |-> NoPolygon]>>)]>>),
         paragraphs |-> Absent] : c \in ClassifyContents}

InitClassify ==
  /\ result \in ClassifyResults
  /\ pc = InitialLocals.pc
  /\ k = InitialLocals.k
  /\ linePolygonMap = InitialLocals.linePolygonMap
  /\ items = InitialLocals.items
  /\ fullText = InitialLocals.fullText
  /\ ret = InitialLocals.ret
  /\ IdleServer

SpecClassify == InitClassify /\ [][Next]_vars

\* C3: a paragraph's item is a heading if the role is title, sectionHeading or
\* pageHeader; otherwise exactly when the content has under 150 characters and
\* matches a shape pattern; the same content and role always give the same type.
C3_ClassificationRule ==
  ParagraphCount(result) >= 1 =>
    /\ \A i \in 1..Len(items) :
         LET role == IF Paragraphs[i].role = "" THEN "paragraph" ELSE Paragraphs[i].role
             content == ToText(items[i].content)
         IN  items[i].type =
               (IF role \in {"title", "sectionHeading", "pageHeader"} THEN "heading"
                ELSE IF Len(content) < 150 /\ MatchesShape(content) THEN "heading"
                ELSE "paragraph")
    /\ \A i, j \in 1..Len(items) :
         (Paragraphs[i].content = Paragraphs[j].content
          /\ Paragraphs[i].role = Paragraphs[j].role) => items[i].type = items[j].type

\* a content of 150 characters starting "1." with role pageHeader was classified twice
C3_Witness ==
  /\ pc = "done"
  /\ Len(items) = 2
  /\ Paragraphs[1].role = "pageHeader"
  /\ Len(Val(Paragraphs[1].content)) = 150
  /\ MatchNumbered(Val(Paragraphs[1].content))
  /\ items[1].type = "heading"
  /\ items[2].type = "heading"

\* the paragraph of the scenario: role "paragraph" and the commencement clause
IsCommenceParagraph(paragraph) ==
  paragraph.role = "paragraph" /\ paragraph.content = Some(CommenceClause)

\* C4 as stated: the commencement clause with role "paragraph" is emitted as an
\* item of type paragraph.
C4_CommenceIsParagraph ==
  \A i \in 1..Len(items) :
    (ParagraphCount(result) >= 1 /\ IsCommenceParagraph(Paragraphs[i])) =>
      items[i].type = "paragraph"

\* C4 amended: the commencement clause has 141 characters, under the gate of 150,
\* and starts with digits and a period, so with role "paragraph" it is emitted as
\* an item of type heading.
C4_CommenceIsHeading ==
  \A i \in 1..Len(items) :
    (ParagraphCount(result) >= 1 /\ IsCommenceParagraph(Paragraphs[i])) =>
      /\ Len(Val(items[i].content)) = 141
      /\ items[i].type = "heading"

\* the commencement clause with role "paragraph" was returned
C4_Witness ==
  /\ pc = "done"
  /\ ParagraphCount(result) >= 1
  /\ IsCommenceParagraph(Paragraphs[1])
  /\ Val(ret).items[1].content = Some(CommenceClause)

-----------------------------------------------------------------------------
(* The /api/analyze and /api/query handlers.  A handler runs from one await *)
(* to the next without interruption; between awaits any other handler may   *)
(* run.  reqs[i].pc is the await request i is suspended at.                 *)

MaxRequests == 3   \* requests the server receives

EmptyResult == [pages |-> Absent, paragraphs |-> Absent]

\* what pollUntilDone may resolve to
ServerResults ==
  {[pages |-> Some(<<TwoLinePage>>),
    paragraphs |-> Some(<<[content |-> Some(Section1), role |-> "",
                           boundingRegions |-> Absent]>>)],
   FallbackScenario,
   EmptyResult,
   [pages |-> Some(<<[pageNumber |-> 1,
                      lines |-> Some(<<[content |-> Absent, polygon |-> FlatA]>>)]>>),
    paragraphs |-> Absent]}

Request(kind) == [kind |-> kind, pc |-> "received", prompt |-> <<>>]

\* a response: the status, the error message, and for a 200 the fullText of the
\* content (analyze) or the document context put into the prompt (query)
Response(i, kind, status, error, text) ==
  [req |-> i, kind |-> kind, status |-> status, error |-> error, text |-> text]

\* the request ends with this response
Respond(i, kind, status, error, text) ==
  /\ reqs' = [reqs EXCEPT ![i].pc = "done"]
  /\ responses' = Append(responses, Response(i, kind, status, error, text))

\* the catch block of the analyze handler, lines 89-95
AnalyzeFailed(i) ==
  /\ Respond(i, "analyze", 500, "Failed to analyze document", <<>>)
  /\ UNCHANGED currentDocumentContext

\* the catch block with the stored context reset
AnalysisOutcomeClearsOnError(context, r) ==
  LET st == extractStructuredContent(r)
  IN  IF st.pc = "threw"
        THEN [ok |-> FALSE, context |-> <<>>, fullText |-> <<>>]
        ELSE [ok |-> TRUE, context |-> Val(st.ret).fullText,
              fullText |-> Val(st.ret).fullText]

\* lines 77-87, or the catch block when extractStructuredContent throws: the
\* context afterwards and the fullText sent in the response
AnalysisOutcome(context, r) ==
  LET st == extractStructuredContent(r)
  IN  IF st.pc = "threw"
        THEN [ok |-> FALSE, context |-> context, fullText |-> <<>>]
        ELSE [ok |-> TRUE, context |-> Val(st.ret).fullText,
              fullText |-> Val(st.ret).fullText]

InitServer ==
  /\ result = EmptyResult
  /\ pc = "idle"
  /\ k = InitialLocals.k
  /\ linePolygonMap = InitialLocals.linePolygonMap
  /\ items = InitialLocals.items
  /\ fullText = InitialLocals.fullText
  /\ ret = InitialLocals.ret
  /\ IdleServer

\* a request arrives
Receive ==
  /\ Len(reqs) < MaxRequests
  /\ \E kind \in {"analyze", "query"} : reqs' = Append(reqs, Request(kind))
  /\ UNCHANGED <<currentDocumentContext, responses, extractVars>>

\* upload.single('document') and lines 61-67, up to await fs.readFile
AnalyzeStart(i) ==
  /\ reqs[i].kind = "analyze" /\ reqs[i].pc = "received"
  /\ \E upload \in {"rejected", "none", "pdf"} :
       \/ /\ upload = "rejected"
          /\ Respond(i, "analyze", 500, "Only PDF files are allowed", <<>>)
       \/ /\ upload = "none"
          /\ Respond(i, "analyze", 400, "No file uploaded", <<>>)
       \/ /\ upload = "pdf"
          /\ reqs' = [reqs EXCEPT ![i].pc = "readFile"]
          /\ UNCHANGED responses
  /\ UNCHANGED <<currentDocumentContext, extractVars>>

\* fs.readFile settles; lines 67-73, up to await beginAnalyzeDocument
AnalyzeReadFile(i) ==
  /\ reqs[i].kind = "analyze" /\ reqs[i].pc = "readFile"
  /\ \/ AnalyzeFailed(i)
     \/ /\ reqs' = [reqs EXCEPT ![i].pc = "beginAnalyze"]
        /\ UNCHANGED <<currentDocumentContext, responses>>
  /\ UNCHANGED extractVars

\* beginAnalyzeDocument settles; line 75, up to await poller.pollUntilDone
AnalyzeBegin(i) ==
  /\ reqs[i].kind = "analyze" /\ reqs[i].pc = "beginAnalyze"
  /\ \/ AnalyzeFailed(i)
     \/ /\ reqs' = [reqs EXCEPT ![i].pc = "poll"]
        /\ UNCHANGED <<currentDocumentContext, responses>>
  /\ UNCHANGED extractVars

\* pollUntilDone settles; lines 75-95
AnalyzePolled(i) ==
  /\ reqs[i].kind = "analyze" /\ reqs[i].pc = "poll"
  /\ \/ AnalyzeFailed(i)
     \/ \E r \in ServerResults :
          LET out == AnalysisOutcome(currentDocumentContext, r)
          IN  /\ currentDocumentContext' = out.context
              /\ IF out.ok
                   THEN Respond(i, "analyze", 200, "", out.fullText)
                   ELSE Respond(i, "analyze", 500, "Failed to analyze document", <<>>)
  /\ UNCHANGED extractVars

Question == <<"W","h","o","?">>

\* lines 106-122, up to await openai.chat.completions.create
QueryStart(i) ==
  /\ reqs[i].kind = "query" /\ reqs[i].pc = "received"
  /\ \E question \in {<<>>, Question} :
       IF question = <<>>
         THEN Respond(i, "query", 400, "Question is required", <<>>)
       ELSE IF currentDocumentContext = <<>>
         THEN Respond(i, "query", 400,
                      "No document analyzed yet. Please upload a document first.", <<>>)
       ELSE /\ reqs' = [reqs EXCEPT ![i].pc = "completion",
                                    ![i].prompt = currentDocumentContext]
            /\ UNCHANGED responses
  /\ UNCHANGED <<currentDocumentContext, extractVars>>

\* the completion settles; lines 138-148
QueryAnswered(i) ==
  /\ reqs[i].kind = "query" /\ reqs[i].pc = "completion"
  /\ \/ Respond(i, "query", 200, "", reqs[i].prompt)
     \/ Respond(i, "query", 500, "Failed to process query", <<>>)
  /\ UNCHANGED <<currentDocumentContext, extractVars>>

NextServer ==
  \/ Receive
  \/ \E i \in 1..Len(reqs) : AnalyzeStart(i)
  \/ \E i \in 1..Len(reqs) : AnalyzeReadFile(i)
  \/ \E i \in 1..Len(reqs) : AnalyzeBegin(i)
  \/ \E i \in 1..Len(reqs) : AnalyzePolled(i)
  \/ \E i \in 1..Len(reqs) : QueryStart(i)
  \/ \E i \in 1..Len(reqs) : QueryAnswered(i)

SpecServer == InitServer /\ [][NextServer]_vars

\* the fullText of the latest successful analyze response, '' when there is none
RECURSIVE LastAnalyzedText(_)
LastAnalyzedText(rs) ==
  IF rs = <<>> THEN <<>>
  ELSE IF rs[Len(rs)].kind = "analyze" /\ rs[Len(rs)].status = 200
    THEN rs[Len(rs)].text
    ELSE LastAnalyzedText(SubSeq(rs, 1, Len(rs) - 1))

\* C7: under every interleaving the document context is '' while no analysis has
\* succeeded and afterwards the fullText of the analysis that completed
\* successfully last; failed analyses and queries leave it as it is.
C7_ContextIsLastAnalysis ==
  currentDocumentContext = LastAnalyzedText(responses)

\* the second request's analysis completed first, then the first request's, with
\* another fullText, which is the context now
C7_Witness ==
  /\ Len(responses) = 2
  /\ responses[1].req = 2 /\ responses[1].kind = "analyze" /\ responses[1].status = 200
  /\ responses[2].req = 1 /\ responses[2].kind = "analyze" /\ responses[2].status = 200
  /\ responses[1].text # responses[2].text
  /\ responses[1].text # <<>>
  /\ currentDocumentContext = responses[2].text

\* response j is a successful analysis
AnalyzedAt(j) == responses[j].kind = "analyze" /\ responses[j].status = 200

\* response j rejects a query for want of a document
RejectedAt(j) ==
  /\ responses[j].kind = "query"
  /\ responses[j].status = 400
  /\ responses[j].error = "No document analyzed yet. Please upload a document first."

\* request i is a query that went on to the language model
Forwarded(i) ==
  /\ reqs[i].kind = "query"
  /\ \/ reqs[i].pc = "completion"
     \/ \E j \in 1..Len(responses) :
          /\ responses[j].req = i
          /\ responses[j].status = 200 \/ responses[j].error = "Failed to process query"

\* C11: a query with a question is rejected with "No document analyzed yet. Please
\* upload a document first." exactly when no analysis has completed successfully
\* before it: no such rejection follows a successful analysis, and a query goes to
\* the language model only after one, with the fullText of a successful analysis.
C11_RejectedIffNoAnalysis ==
  /\ \A j \in 1..Len(responses) :
       RejectedAt(j) => ~\E h \in 1..(j - 1) : AnalyzedAt(h)
  /\ \A i \in 1..Len(reqs) :
       Forwarded(i) =>
         \E h \in 1..Len(responses) : AnalyzedAt(h) /\ responses[h].text = reqs[i].prompt

====
